---- MODULE Spec2Model ----
(***************************************************************************)
(* State-machine model of the file routes of File-Uploader                 *)
(* (src/routes/files.js).  The metadata store (prisma.file, prisma.folder) *)
(* and the upload directory are the shared state; every HTTP request is a  *)
(* process that advances from one `await` of its handler to the next, so   *)
(* requests interleave exactly where the handlers yield.                   *)
(*                                                                         *)
(* Requests are well formed: the route parameter is a number, the upload   *)
(* passes multer's type and size filter and the body validators.  Folders  *)
(* are those of prisma.folder; no route of this router changes them.       *)
(*                                                                         *)
(* SeqSpec serves one request at a time, ConcSpec interleaves requests,    *)
(* FaultSpec and Spec let a metadata-store call reject.  PairSpec starts   *)
(* from the stores that successful uploads leave and interleaves mutating  *)
(* requests on different files.                                            *)
(***************************************************************************)
EXTENDS Integers, Sequences, FiniteSets, TLC

VARIABLES
    files,      \* prisma.file   : id -> File record, for the ids that exist
    folders,    \* prisma.folder : id -> [userId]
    blobs,      \* paths present in the uploads directory
    nextId,     \* next autoincrement File.id
    nextBlob,   \* next unique filename multer generates
    deletedBy,  \* id -> the user whose DELETE removed the record (history)
    start,      \* the records and blobs of the initial state (history)
    req         \* slot -> the request being served in that slot

vars == <<files, folders, blobs, nextId, nextBlob, deletedBy, start, req>>

-----------------------------------------------------------------------------
(* Bounds *)

MaxUploads == 2     \* uploads accepted by multer in one behaviour
MaxSlots == 2       \* requests that can be in flight at once

-----------------------------------------------------------------------------
(* Principals, folders and inputs *)

Users == {1, 2}
Anon == 0                         \* req.user is undefined
Principals == Users \cup {Anon}

Null == "null"                    \* a null folderId
FolderArgs == {"", "g1", "g2", "gx"}   \* req.body.folderId; "gx" names no folder
FileIds == 1..MaxUploads          \* Number(req.params.id)
Slots == 1..MaxSlots

PubArgs == {"true", "false"}      \* req.body.isPublic

\* No file found: findFirst returned null.  A found record f is <<f>>.
NoFile == <<>>

NoResp == [kind |-> "None", to |-> 0]

\* A slot: the request (op, user, id, folderArg, pubArg, hasFile), the
\* handler's position and the locals it still uses (pc; folderId; path, which
\* is req.file.path or file.path), its response (resp: the outcome and the
\* file id of the page it redirects to, 0 for none), and what is remembered
\* of its run: seen is the owner and visibility of the target record as the
\* store held it when the handler looked it up, blobErr that fs.unlink threw,
\* fault that a metadata-store call rejected.  list holds the file ids a list
\* page renders, in the order it renders them.
Idle ==
    [op |-> "none", user |-> Anon, id |-> 0, folderArg |-> "", pubArg |-> "false",
     hasFile |-> FALSE, pc |-> "idle", folderId |-> Null, path |-> 0,
     seen |-> NoFile, blobErr |-> FALSE, fault |-> FALSE, resp |-> NoResp,
     list |-> <<>>]

\* The requests a client can send to a route: the session's user and the
\* route's parameter and body.
UploadRequests ==
    {[Idle EXCEPT !.op = "upload", !.user = u, !.folderArg = g, !.pubArg = p,
                  !.hasFile = TRUE] : u \in Users, g \in FolderArgs, p \in PubArgs}
    \cup {[Idle EXCEPT !.op = "upload", !.user = u] : u \in Users}

FileRequests(op) ==
    {[Idle EXCEPT !.op = op, !.user = u, !.id = id] : u \in Principals, id \in FileIds}

\* GET /files/public by anyone, GET /files by a signed-in user.
ListRequests ==
    {[Idle EXCEPT !.op = "public", !.user = u] : u \in Principals}
    \cup {[Idle EXCEPT !.op = "owned", !.user = u] : u \in Users}

AssignRequests ==
    {[Idle EXCEPT !.op = "assign", !.user = u, !.id = id, !.folderArg = g] :
        u \in Users, id \in FileIds, g \in FolderArgs}

-----------------------------------------------------------------------------
(* The metadata store's queries *)

\* Variant: an undefined userId condition selects every record.
MatchUserOrUndefined(f, uid) == uid = Anon \/ f.userId = uid

\* where: { userId: uid } inside an OR list.  req.user?.id is undefined for an
\* anonymous request; Prisma drops an undefined condition, and an OR branch
\* left with no condition selects nothing.
MatchUser(f, uid) == uid # Anon /\ f.userId = uid

\* Variant: any signed-in user matches the first OR branch.
FindReadableSignedIn(fs, id, uid) ==
    IF id \in DOMAIN fs /\ (uid # Anon \/ fs[id].isPublic)
    THEN <<fs[id]>> ELSE NoFile

\* prisma.file.findFirst({ where: { id, OR: [{ userId }, { isPublic: true }] } })
FindReadable(fs, id, uid) ==
    IF id \in DOMAIN fs /\ (MatchUser(fs[id], uid) \/ fs[id].isPublic)
    THEN <<fs[id]>> ELSE NoFile

\* Variant: the read filter (owner or public) used for a mutation.
FindOwnedOrPublic(fs, id, uid) ==
    IF id \in DOMAIN fs /\ (fs[id].userId = uid \/ fs[id].isPublic)
    THEN <<fs[id]>> ELSE NoFile

\* prisma.file.findFirst({ where: { id, userId: req.user.id } })
FindOwned(fs, id, uid) ==
    IF id \in DOMAIN fs /\ fs[id].userId = uid THEN <<fs[id]>> ELSE NoFile

\* Variant: the folder is looked up by id alone.
FindFolderById(gs, gid, uid) == gid \in DOMAIN gs

\* prisma.folder.findFirst({ where: { id: folderId, userId: req.user.id } })
FindFolder(gs, gid, uid) == gid \in DOMAIN gs /\ gs[gid].userId = uid

\* Owner and visibility of the record of id as the store holds it, whoever asks.
Stored(fs, id) ==
    IF id \in DOMAIN fs
    THEN <<[userId |-> fs[id].userId, isPublic |-> fs[id].isPublic]>> ELSE NoFile

RemoveFile(fs, id) == [i \in DOMAIN fs \ {id} |-> fs[i]]

\* let folderId = req.body.folderId || null
OrNull(g) == IF g = "" THEN Null ELSE g

\* isPublic: req.body.isPublic === "true"
IsPublicArg(p) == p = "true"

-----------------------------------------------------------------------------
Init ==
    /\ files = [i \in {} |-> 0]
    /\ folders = [g \in {"g1", "g2"} |-> [userId |-> IF g = "g1" THEN 1 ELSE 2]]
    /\ blobs = {}
    /\ nextId = 1
    /\ nextBlob = 1
    /\ deletedBy = [i \in {} |-> 0]
    /\ start = [files |-> files, blobs |-> blobs]
    /\ req = [r \in Slots |-> Idle]

Resp(kind, to) == [kind |-> kind, to |-> to]

\* The handler returns: its locals are gone, its response stays.
Done(q, kind, to) ==
    [q EXCEPT !.pc = "done", !.folderId = Null, !.path = 0, !.resp = Resp(kind, to)]

Finish(r, kind, to) == req' = [req EXCEPT ![r] = Done(req[r], kind, to)]

\* ensureAuthenticated: a request without a user never reaches the route's
\* handler (POST /upload, DELETE /:id, POST /:id/assign-folder).
Rejected(q) == Done(q, "NotFound", 0)

EnsureAuthenticated(r) ==
    /\ req[r].pc = "idle"
    /\ \E op \in {"upload", "delete", "assign", "owned"}, id \in FileIds :
          req' = [req EXCEPT ![r] =
                     Rejected([Idle EXCEPT !.op = op, !.user = Anon,
                                           !.id = IF op \in {"upload", "owned"}
                                                  THEN 0 ELSE id])]
    /\ UNCHANGED <<files, folders, blobs, nextId, nextBlob, deletedBy, start>>

\* The response has been sent; the slot is free again.
Retire(r) ==
    /\ req[r].pc = "done"
    /\ req' = [req EXCEPT ![r] = Idle]
    /\ UNCHANGED <<files, folders, blobs, nextId, nextBlob, deletedBy, start>>

-----------------------------------------------------------------------------
(* POST /files/upload *)

\* upload.single("file") writes the blob, then the handler runs to its first await.
UploadStore(r) ==
    /\ req[r].pc = "idle"
    /\ \E q \in UploadRequests :
          IF ~q.hasFile
          THEN /\ req' = [req EXCEPT ![r] = Done(q, "NoFile", 0)]
               /\ UNCHANGED <<blobs, nextBlob>>
          ELSE /\ nextBlob <= MaxUploads
               /\ blobs' = blobs \cup {nextBlob}
               /\ nextBlob' = nextBlob + 1
               /\ req' = [req EXCEPT ![r] =
                            [q EXCEPT !.path = nextBlob,
                                      !.folderId = OrNull(q.folderArg),
                                      !.pc = IF OrNull(q.folderArg) # Null
                                             THEN "up_folder" ELSE "up_create"]]
    /\ UNCHANGED <<files, folders, nextId, deletedBy, start>>

\* Variant: the requested folder is kept when the lookup finds none.
ResolveOrKeep(gs, gid, uid) == gid

\* The folder the upload handler files the record under.
ResolveOrClear(gs, gid, uid) == IF FindFolder(gs, gid, uid) THEN gid ELSE Null

\* const folder = await prisma.folder.findFirst(...); if (!folder) folderId = null
UploadFolder(r) ==
    /\ req[r].pc = "up_folder"
    /\ req' = [req EXCEPT ![r].folderId = ResolveOrClear(folders, req[r].folderId, req[r].user),
                          ![r].pc = "up_create"]
    /\ UNCHANGED <<files, folders, blobs, nextId, nextBlob, deletedBy, start>>

NewFile(q) ==
    [userId |-> q.user, isPublic |-> IsPublicArg(q.pubArg),
     folderId |-> q.folderId, path |-> q.path]

\* The record as the store keeps it: uploadedAt is the store's time of
\* creation, later for every later record.
Stamp(f, t) ==
    [userId |-> f.userId, isPublic |-> f.isPublic, folderId |-> f.folderId,
     path |-> f.path, uploadedAt |-> t]

\* Variant: the store hands out the smallest free id, so the id of a deleted
\* record is given to the next upload.
UploadCreateReusingId(r) ==
    LET FreeId == CHOOSE i \in 1..(Cardinality(DOMAIN files) + 1) :
                      /\ i \notin DOMAIN files
                      /\ \A j \in 1..(i - 1) : j \in DOMAIN files
    IN  /\ req[r].pc = "up_create"
        /\ files' = files @@ (FreeId :> Stamp(NewFile(req[r]), nextId))
        /\ nextId' = nextId + 1
        /\ req' = [req EXCEPT ![r] =
                     Done([req[r] EXCEPT !.id = FreeId], "Success", 0)]
        /\ UNCHANGED <<folders, blobs, nextBlob, deletedBy, start>>

\* await prisma.file.create({ data: {...} })
UploadCreate(r) ==
    /\ req[r].pc = "up_create"
    /\ files' = files @@ (nextId :> Stamp(NewFile(req[r]), nextId))
    /\ nextId' = nextId + 1
    /\ req' = [req EXCEPT ![r] =
                 Done([req[r] EXCEPT !.id = nextId], "Success", 0)]
    /\ UNCHANGED <<folders, blobs, nextBlob, deletedBy, start>>

-----------------------------------------------------------------------------
(* GET /files/:id *)

\* Variant: the handler answers 404 unless the file is public.
ReadLookupPublicOnly(q0, fs) ==
    LET file == FindReadable(fs, q0.id, q0.user)
        q == [q0 EXCEPT !.seen = Stored(fs, q0.id)]
    IN  IF file = NoFile \/ ~file[1].isPublic
        THEN Done(q, "NotFound", 0)
        ELSE Done(q, "Success", 0)

\* canEdit: req.user && file.userId === req.user.id
CanEdit(q, f) == q.user # Anon /\ f.userId = q.user

\* The handler up to its second await, on the store fs.
ReadLookup(q0, fs) ==
    LET file == FindReadable(fs, q0.id, q0.user)
        q == [q0 EXCEPT !.seen = Stored(fs, q0.id)]
    IN  IF file = NoFile
        THEN Done(q, "NotFound", 0)
        ELSE IF CanEdit(q, file[1])
             THEN [q EXCEPT !.pc = "read_folders"]
             ELSE Done(q, "Success", 0)

ReadFind(r) ==
    /\ req[r].pc = "idle"
    /\ \E q \in FileRequests("read") : req' = [req EXCEPT ![r] = ReadLookup(q, files)]
    /\ UNCHANGED <<files, folders, blobs, nextId, nextBlob, deletedBy, start>>

\* folders = await prisma.folder.findMany(...); res.render("files/info", ...)
ReadFolders(r) ==
    /\ req[r].pc = "read_folders"
    /\ Finish(r, "Success", 0)
    /\ UNCHANGED <<files, folders, blobs, nextId, nextBlob, deletedBy, start>>

-----------------------------------------------------------------------------
(* GET /files/:id/download *)

\* The handler up to res.download, on the store fs.
DownloadLookup(q0, fs) ==
    LET file == FindReadable(fs, q0.id, q0.user)
        q == [q0 EXCEPT !.seen = Stored(fs, q0.id)]
    IN  IF file = NoFile
        THEN Done(q, "NotFound", 0)
        ELSE [q EXCEPT !.pc = "dl_send", !.path = file[1].path]

DownloadFind(r) ==
    /\ req[r].pc = "idle"
    /\ \E q \in FileRequests("download") :
          req' = [req EXCEPT ![r] = DownloadLookup(q, files)]
    /\ UNCHANGED <<files, folders, blobs, nextId, nextBlob, deletedBy, start>>

\* res.download(file.path, file.originalName) streams the blob, if it is there.
DownloadSend(r) ==
    /\ req[r].pc = "dl_send"
    /\ IF req[r].path \in blobs
       THEN Finish(r, "Success", 0)
       ELSE Finish(r, "BlobMissing", 0)
    /\ UNCHANGED <<files, folders, blobs, nextId, nextBlob, deletedBy, start>>

-----------------------------------------------------------------------------
(* DELETE /files/:id *)

\* Variant: no check that a record was found; reading file.path throws.
DeleteLookupUnchecked(q0, fs) ==
    LET file == FindOwned(fs, q0.id, q0.user)
        q == [q0 EXCEPT !.seen = Stored(fs, q0.id)]
    IN  IF file = NoFile
        THEN Done(q, "Error", 0)
        ELSE [q EXCEPT !.pc = "del_unlink", !.path = file[1].path]

\* Variant: the record is fetched by id, then ownership is checked and a
\* foreign file is answered with 403.
DeleteLookupForbidden(q0, fs) ==
    LET q == [q0 EXCEPT !.seen = Stored(fs, q0.id)]
    IN  IF q0.id \notin DOMAIN fs
        THEN Done(q, "NotFound", 0)
        ELSE IF fs[q0.id].userId # q0.user
             THEN Done(q, "Forbidden", 0)
             ELSE [q EXCEPT !.pc = "del_unlink", !.path = fs[q0.id].path]

\* The handler up to fs.unlink, on the store fs.
DeleteLookup(q0, fs) ==
    LET file == FindOwned(fs, q0.id, q0.user)
        q == [q0 EXCEPT !.seen = Stored(fs, q0.id)]
    IN  IF file = NoFile
        THEN Done(q, "NotFound", 0)
        ELSE [q EXCEPT !.pc = "del_unlink", !.path = file[1].path]

DeleteFind(r) ==
    /\ req[r].pc = "idle"
    /\ \E q \in FileRequests("delete") :
          /\ q.user # Anon
          /\ req' = [req EXCEPT ![r] = DeleteLookup(q, files)]
    /\ UNCHANGED <<files, folders, blobs, nextId, nextBlob, deletedBy, start>>

\* Variant: a failed unlink is not caught locally and ends the request.
DeleteUnlinkFatal(r) ==
    /\ req[r].pc = "del_unlink"
    /\ \/ /\ req[r].path \in blobs
          /\ blobs' = blobs \ {req[r].path}
          /\ req' = [req EXCEPT ![r].pc = "del_record"]
       \/ /\ blobs' = blobs
          /\ req' = [req EXCEPT ![r] = Done([req[r] EXCEPT !.blobErr = TRUE], "Error", 0)]
    /\ UNCHANGED <<files, folders, nextId, nextBlob, deletedBy, start>>

\* try { await fs.unlink(file.path) } catch (fsError) { console.error(...) }
DeleteUnlink(r) ==
    /\ req[r].pc = "del_unlink"
    /\ \/ /\ req[r].path \in blobs
          /\ blobs' = blobs \ {req[r].path}
          /\ req' = [req EXCEPT ![r].pc = "del_record"]
       \/ /\ blobs' = blobs            \* unlink throws: ENOENT, EACCES, EBUSY...
          /\ req' = [req EXCEPT ![r].pc = "del_record", ![r].blobErr = TRUE]
    /\ UNCHANGED <<files, folders, nextId, nextBlob, deletedBy, start>>

\* await prisma.file.delete({ where: { id: file.id } }) throws when no record has the id
DeleteRecord(r) ==
    /\ req[r].pc = "del_record"
    /\ IF req[r].id \in DOMAIN files
       THEN /\ files' = RemoveFile(files, req[r].id)
            /\ deletedBy' = deletedBy @@ (req[r].id :> req[r].user)
            /\ Finish(r, "Success", 0)
       ELSE /\ UNCHANGED <<files, deletedBy>>
            /\ Finish(r, "Error", 0)
    /\ UNCHANGED <<folders, blobs, nextId, nextBlob, start>>

-----------------------------------------------------------------------------
(* POST /files/:id/assign-folder *)

\* The handler up to its second await, on the store fs.
AssignLookup(q0, fs) ==
    LET file == FindOwned(fs, q0.id, q0.user)
        q == [q0 EXCEPT !.seen = Stored(fs, q0.id)]
    IN  IF file = NoFile
        THEN Done(q, "NotFound", 0)
        ELSE IF q.folderArg # ""
             THEN [q EXCEPT !.pc = "as_folder"]
             ELSE [q EXCEPT !.pc = "as_update", !.folderId = Null]

AssignFind(r) ==
    /\ req[r].pc = "idle"
    /\ \E q \in AssignRequests : req' = [req EXCEPT ![r] = AssignLookup(q, files)]
    /\ UNCHANGED <<files, folders, blobs, nextId, nextBlob, deletedBy, start>>

\* Variant: an unresolved folder unfiles the file, as the upload handler does.
AssignFolderOrClear(r) ==
    /\ req[r].pc = "as_folder"
    /\ req' = [req EXCEPT ![r].pc = "as_update",
                          ![r].folderId = ResolveOrClear(folders, req[r].folderArg, req[r].user)]
    /\ UNCHANGED <<files, folders, blobs, nextId, nextBlob, deletedBy, start>>

\* const folder = await prisma.folder.findFirst(...); if (!folder) { flash; redirect }
AssignFolder(r) ==
    /\ req[r].pc = "as_folder"
    /\ IF FindFolder(folders, req[r].folderArg, req[r].user)
       THEN req' = [req EXCEPT ![r].pc = "as_update", ![r].folderId = req[r].folderArg]
       ELSE Finish(r, "FolderNotFound", req[r].id)
    /\ UNCHANGED <<files, folders, blobs, nextId, nextBlob, deletedBy, start>>

\* Variant: the update is an upsert, a missing record is written anew.
AssignUpsert(r) ==
    /\ req[r].pc = "as_update"
    /\ files' = IF req[r].id \in DOMAIN files
                THEN [files EXCEPT ![req[r].id].folderId = req[r].folderId]
                ELSE files @@ (req[r].id :>
                        [userId |-> req[r].user, isPublic |-> FALSE,
                         folderId |-> req[r].folderId, path |-> 0, uploadedAt |-> 0])
    /\ Finish(r, "Success", req[r].id)
    /\ UNCHANGED <<folders, blobs, nextId, nextBlob, deletedBy, start>>

\* Variant: the update moves every file of the request's user (updateMany
\* where userId), not the one record.
AssignUpdateMany(r) ==
    /\ req[r].pc = "as_update"
    /\ IF req[r].id \in DOMAIN files
       THEN /\ files' = [i \in DOMAIN files |->
                           IF files[i].userId = req[r].user
                           THEN [files[i] EXCEPT !.folderId = req[r].folderId]
                           ELSE files[i]]
            /\ Finish(r, "Success", req[r].id)
       ELSE /\ files' = files
            /\ Finish(r, "Error", req[r].id)
    /\ UNCHANGED <<folders, blobs, nextId, nextBlob, deletedBy, start>>

\* Variant: the update writes the record back from the form, which carries
\* no isPublic field, so the file becomes private.
AssignUpdateResettingVisibility(r) ==
    /\ req[r].pc = "as_update"
    /\ IF req[r].id \in DOMAIN files
       THEN /\ files' = [files EXCEPT ![req[r].id].folderId = req[r].folderId,
                                      ![req[r].id].isPublic = FALSE]
            /\ Finish(r, "Success", req[r].id)
       ELSE /\ files' = files
            /\ Finish(r, "Error", req[r].id)
    /\ UNCHANGED <<folders, blobs, nextId, nextBlob, deletedBy, start>>

\* await prisma.file.update({ where: { id: file.id }, data: { folderId } })
\* throws when no record has the id
AssignUpdate(r) ==
    /\ req[r].pc = "as_update"
    /\ IF req[r].id \in DOMAIN files
       THEN /\ files' = [files EXCEPT ![req[r].id].folderId = req[r].folderId]
            /\ Finish(r, "Success", req[r].id)
       ELSE /\ files' = files
            /\ Finish(r, "Error", req[r].id)
    /\ UNCHANGED <<folders, blobs, nextId, nextBlob, deletedBy, start>>

-----------------------------------------------------------------------------
(* GET /files/public and GET /files *)

\* The id in ids whose record was uploaded last.
Latest(fs, ids) == CHOOSE i \in ids : \A j \in ids : fs[j].uploadedAt <= fs[i].uploadedAt

\* orderBy: { uploadedAt: "desc" }
RECURSIVE OrderByUploadedAtDesc(_, _)
OrderByUploadedAtDesc(fs, ids) ==
    IF ids = {} THEN <<>>
    ELSE <<Latest(fs, ids)>> \o OrderByUploadedAtDesc(fs, ids \ {Latest(fs, ids)})

\* prisma.file.findMany({ where: { isPublic: true }, orderBy: { uploadedAt: "desc" } })
FindManyPublic(fs) ==
    OrderByUploadedAtDesc(fs, {i \in DOMAIN fs : fs[i].isPublic})

\* Variant: the owner's list also takes the public files.
FindManyOwnedOrPublic(fs, uid) ==
    OrderByUploadedAtDesc(fs, {i \in DOMAIN fs : fs[i].userId = uid \/ fs[i].isPublic})

\* prisma.file.findMany({ where: { userId: req.user.id }, orderBy: { uploadedAt: "desc" } })
FindManyOwned(fs, uid) ==
    OrderByUploadedAtDesc(fs, {i \in DOMAIN fs : fs[i].userId = uid})

ListPublic(r) ==
    /\ req[r].pc = "idle"
    /\ \E q \in ListRequests :
          /\ q.op = "public"
          /\ req' = [req EXCEPT ![r] =
                       Done([q EXCEPT !.list = FindManyPublic(files)], "Success", 0)]
    /\ UNCHANGED <<files, folders, blobs, nextId, nextBlob, deletedBy, start>>

ListOwned(r) ==
    /\ req[r].pc = "idle"
    /\ \E q \in ListRequests :
          /\ q.op = "owned"
          /\ req' = [req EXCEPT ![r] =
                       Done([q EXCEPT !.list = FindManyOwned(files, q.user)], "Success", 0)]
    /\ UNCHANGED <<files, folders, blobs, nextId, nextBlob, deletedBy, start>>

-----------------------------------------------------------------------------
(* A metadata-store call rejects (connection lost, timeout): the handler's  *)
(* catch block answers.                                                     *)

Caught(q) ==
    [Done(q, "Error", IF q.op = "assign" THEN q.id ELSE 0) EXCEPT !.fault = TRUE]

\* The first call of a handler fails.
FirstCallFault(r) ==
    /\ req[r].pc = "idle"
    /\ \E q \in FileRequests("read") \cup FileRequests("download")
                \cup {d \in FileRequests("delete") : d.user # Anon} \cup AssignRequests
                \cup ListRequests :
          req' = [req EXCEPT ![r] = Caught(q)]
    /\ UNCHANGED <<files, folders, blobs, nextId, nextBlob, deletedBy, start>>

\* Variant: the upload handler's catch block removes the blob it stored.
LaterCallFaultWithRollback(r) ==
    /\ req[r].pc \in {"up_folder", "up_create", "read_folders", "del_record",
                      "as_folder", "as_update"}
    /\ req' = [req EXCEPT ![r] = Caught(req[r])]
    /\ blobs' = IF req[r].op = "upload" THEN blobs \ {req[r].path} ELSE blobs
    /\ UNCHANGED <<files, folders, nextId, nextBlob, deletedBy, start>>

\* A later call of a handler fails.
LaterCallFault(r) ==
    /\ req[r].pc \in {"up_folder", "up_create", "read_folders", "del_record",
                      "as_folder", "as_update"}
    /\ req' = [req EXCEPT ![r] = Caught(req[r])]
    /\ UNCHANGED <<files, folders, blobs, nextId, nextBlob, deletedBy, start>>

-----------------------------------------------------------------------------
(* Specifications *)

\* A request arrives and its handler runs to its first await.
Begin(r) ==
    \/ EnsureAuthenticated(r)
    \/ UploadStore(r) \/ ReadFind(r) \/ DownloadFind(r) \/ DeleteFind(r) \/ AssignFind(r)
    \/ ListPublic(r) \/ ListOwned(r)

\* A handler resumes after an await.
Resume(r) ==
    \/ UploadFolder(r) \/ UploadCreate(r)
    \/ ReadFolders(r)
    \/ DownloadSend(r)
    \/ DeleteUnlink(r) \/ DeleteRecord(r)
    \/ AssignFolder(r) \/ AssignUpdate(r)

Quiet == \A s \in Slots : req[s].pc = "idle"

\* One request at a time: a request arrives when no other is being served.
SeqNext == \E r \in Slots : (Quiet /\ Begin(r)) \/ Resume(r) \/ Retire(r)

\* Requests interleave at their awaits; the metadata store answers every call.
ConcNext == \E r \in Slots : Begin(r) \/ Resume(r) \/ Retire(r)

\* One request at a time, and the metadata store may fail a call.
FaultNext ==
    \E r \in Slots : (Quiet /\ (Begin(r) \/ FirstCallFault(r)))
                        \/ Resume(r) \/ LaterCallFault(r) \/ Retire(r)

\* Requests interleave and the metadata store may fail a call.
Next ==
    \E r \in Slots : Begin(r) \/ Resume(r) \/ Retire(r)
                        \/ FirstCallFault(r) \/ LaterCallFault(r)

\* The folder a record can be filed under: none, or a folder of its owner.
FoldersOf(u) == {Null} \cup {g \in DOMAIN folders : folders[g].userId = u}

\* The stores left by n uploads that all succeeded, the slots free again.
PairInit ==
    /\ folders = [g \in {"g1", "g2"} |-> [userId |-> IF g = "g1" THEN 1 ELSE 2]]
    /\ \E n \in 1..MaxUploads :
          /\ files \in {fs \in [1..n -> [userId : Users, isPublic : BOOLEAN,
                                          folderId : {Null, "g1", "g2"},
                                          path : 1..n, uploadedAt : 1..n]] :
                           \A i \in 1..n : /\ fs[i].path = i /\ fs[i].uploadedAt = i
                                            /\ fs[i].folderId \in FoldersOf(fs[i].userId)}
          /\ blobs = 1..n
          /\ nextId = n + 1
          /\ nextBlob = n + 1
    /\ deletedBy = [i \in {} |-> 0]
    /\ start = [files |-> files, blobs |-> blobs]
    /\ req = [r \in Slots |-> Idle]

\* A Delete or ReassignFolder arrives on a file no request in another slot is
\* about.
PairBegin(r) ==
    /\ DeleteFind(r) \/ AssignFind(r)
    /\ \A s \in Slots \ {r} : req[s].pc = "idle" \/ req[s].id # req'[r].id

\* Mutating requests on different files interleave at their awaits; each slot
\* serves one request.
PairNext ==
    \E r \in Slots : \/ PairBegin(r)
                     \/ DeleteUnlink(r) \/ DeleteRecord(r)
                     \/ AssignFolder(r) \/ AssignUpdate(r)

SeqSpec == Init /\ [][SeqNext]_vars
ConcSpec == Init /\ [][ConcNext]_vars
FaultSpec == Init /\ [][FaultNext]_vars
Spec == Init /\ [][Next]_vars
PairSpec == PairInit /\ [][PairNext]_vars

-----------------------------------------------------------------------------
(* Properties *)

Finished(r) == req[r].pc = "done"

Kind(r) == req[r].resp.kind

\* The handler of r found a record under the id, owned by someone else / by
\* the request's user.
SawForeign(r) == req[r].seen # NoFile /\ req[r].seen[1].userId # req[r].user
SawOwn(r) == req[r].seen # NoFile /\ req[r].seen[1].userId = req[r].user
SawPublic(r) == req[r].seen # NoFile /\ req[r].seen[1].isPublic
SawPrivate(r) == req[r].seen # NoFile /\ ~req[r].seen[1].isPublic

\* C1: an anonymous Read or Download of an existing file succeeds if and only
\* if the file is public; for a private file it reports NotFound.
C1_AnonymousReadsOnlyPublic ==
    \A r \in Slots :
        (Finished(r) /\ req[r].op \in {"read", "download"} /\ req[r].user = Anon
            /\ req[r].seen # NoFile)
        => /\ Kind(r) = "Success" <=> SawPublic(r)
           /\ SawPrivate(r) => Kind(r) = "NotFound"

C1_Witness ==
    \E r \in Slots :
        /\ Finished(r) /\ req[r].op = "download" /\ req[r].user = Anon
        /\ SawPrivate(r) /\ Kind(r) = "NotFound"
        /\ req[r].id \in DOMAIN files

\* C2: a Read or Download by a signed-in user who does not own the file
\* succeeds if and only if the file is public and reports NotFound for a
\* private file, while the owner's Read of the private file succeeds.
C2_NonOwnerReadsOnlyPublic ==
    \A r \in Slots :
        (Finished(r) /\ req[r].op \in {"read", "download"} /\ req[r].user \in Users)
        => /\ SawForeign(r) => (Kind(r) = "Success" <=> SawPublic(r))
           /\ (SawForeign(r) /\ SawPrivate(r)) => Kind(r) = "NotFound"
           /\ (SawOwn(r) /\ SawPrivate(r) /\ req[r].op = "read") => Kind(r) = "Success"

C2_Witness ==
    \E r \in Slots :
        /\ Finished(r) /\ req[r].op = "read" /\ req[r].user = 2
        /\ SawForeign(r) /\ SawPrivate(r) /\ Kind(r) = "NotFound"
        /\ req[r].id \in DOMAIN files /\ files[req[r].id].userId = 1

\* The slot r takes this step for a request of user u on file f.
StepsFor(r, u, f) ==
    /\ req'[r] # req[r]
    /\ req[r].user = u /\ req[r].id = f /\ req[r].op \in {"delete", "assign"}

\* C3: a file's record is removed or moved, and its blob removed, only by a
\* step of a Delete or ReassignFolder request of the file's owner; a Delete or
\* ReassignFolder by anyone else, also on a public file, reports NotFound.
C3_OnlyOwnerMutates ==
    [][/\ \A f \in DOMAIN files :
             (\/ f \notin DOMAIN files'
              \/ (f \in DOMAIN files' /\ files'[f] # files[f])
              \/ (files[f].path \in blobs /\ files[f].path \notin blobs'))
             => \E r \in Slots : StepsFor(r, files[f].userId, f)
       /\ \A r \in Slots :
             (req'[r].pc = "done" /\ req'[r].op \in {"delete", "assign"}
                /\ (req'[r].user = Anon
                      \/ (req'[r].seen # NoFile
                            /\ req'[r].seen[1].userId # req'[r].user)))
             => req'[r].resp.kind = "NotFound"]_vars

C3_Witness ==
    \E r \in Slots :
        /\ Finished(r) /\ req[r].op = "delete" /\ req[r].user \in Users
        /\ SawForeign(r) /\ SawPublic(r) /\ Kind(r) = "NotFound"
        /\ req[r].id \in DOMAIN files
        /\ files[req[r].id].path \in blobs

\* A folder argument the owner may assign: empty, or a folder of the user's.
OwnFolderArg(g, u) == g = "" \/ (g \in DOMAIN folders /\ folders[g].userId = u)

\* C4: the owner's Read, Download and Delete of an existing file succeed, and
\* the owner's ReassignFolder to null or to a folder of the owner's succeeds,
\* whether the file is public or private; the Delete removes the record and
\* the ReassignFolder sets the folder.
C4_OwnerSucceeds ==
    \A r \in Slots :
        (Finished(r) /\ req[r].user \in Users /\ SawOwn(r))
        => /\ req[r].op \in {"read", "download", "delete"} => Kind(r) = "Success"
           /\ req[r].op = "delete" => req[r].id \notin DOMAIN files
           /\ (req[r].op = "assign" /\ OwnFolderArg(req[r].folderArg, req[r].user))
                => /\ Kind(r) = "Success"
                   /\ req[r].id \in DOMAIN files
                   /\ files[req[r].id].folderId = OrNull(req[r].folderArg)

C4_Witness ==
    \E r \in Slots :
        /\ Finished(r) /\ req[r].op = "read" /\ req[r].user \in Users
        /\ SawOwn(r) /\ SawPrivate(r) /\ Kind(r) = "Success"

\* C5: every file with a folder references an existing folder owned by the
\* file's owner, under every interleaving of uploads and reassignments.
C5_FolderOfSameOwner ==
    \A f \in DOMAIN files :
        files[f].folderId # Null
        => /\ files[f].folderId \in DOMAIN folders
           /\ folders[files[f].folderId].userId = files[f].userId

C5_Witness ==
    \E r \in Slots :
        /\ Finished(r) /\ req[r].op = "assign" /\ Kind(r) = "Success"
        /\ req[r].folderArg # ""
        /\ req[r].id \in DOMAIN files
        /\ files[req[r].id].folderId = req[r].folderArg
        /\ \E s \in Slots : req[s].op = "upload" /\ req[s].pc = "up_create"
                              /\ req[s].folderId # Null

\* C6: a ReassignFolder by the owner that names a folder which does not exist
\* or belongs to another user changes no record and no blob at any of its
\* steps, and ends reporting 'Selected folder not found'.
C6_InvalidFolderRejected ==
    [][\A r \in Slots :
          (/\ req'[r] # req[r]
           /\ req'[r].op = "assign" /\ req'[r].user \in Users
           /\ ~OwnFolderArg(req'[r].folderArg, req'[r].user))
          => /\ files' = files
             /\ blobs' = blobs
             /\ (/\ req'[r].pc = "done"
                 /\ req'[r].seen # NoFile
                 /\ req'[r].seen[1].userId = req'[r].user)
                => req'[r].resp = Resp("FolderNotFound", req'[r].id)]_vars

C6_Witness ==
    \E r \in Slots :
        /\ Finished(r) /\ req[r].op = "assign" /\ SawOwn(r)
        /\ req[r].folderArg = "g1" /\ req[r].user = 2
        /\ Kind(r) = "FolderNotFound"
        /\ req[r].id \in DOMAIN files
        /\ files[req[r].id].folderId = "g2"

\* C7: an upload by a signed-in user succeeds and creates a record of that
\* user whose folderId is the requested folder when that folder is the
\* user's, and null when the id is empty, names no folder or names another
\* user's folder.
C7_UploadFallsBackToNull ==
    \A r \in Slots :
        (Finished(r) /\ req[r].op = "upload" /\ req[r].user \in Users /\ req[r].hasFile)
        => /\ Kind(r) = "Success"
           /\ req[r].id \in DOMAIN files
           /\ files[req[r].id].userId = req[r].user
           /\ files[req[r].id].folderId =
                 IF req[r].folderArg \in DOMAIN folders
                      /\ folders[req[r].folderArg].userId = req[r].user
                 THEN req[r].folderArg ELSE Null

C7_Witness ==
    \E r \in Slots :
        /\ Finished(r) /\ req[r].op = "upload" /\ req[r].user = 1
        /\ req[r].folderArg = "g2" /\ Kind(r) = "Success"
        /\ req[r].id \in DOMAIN files
        /\ files[req[r].id].folderId = Null

ReadRequest(u, id) == [Idle EXCEPT !.op = "read", !.user = u, !.id = id]

\* C8: a Delete by the owner whose blob removal throws still reports success
\* and removes the record, and a Read of the id by any principal then reports
\* NotFound.
C8_DeleteSurvivesBlobError ==
    \A r \in Slots :
        (Finished(r) /\ req[r].op = "delete" /\ req[r].blobErr)
        => /\ Kind(r) = "Success"
           /\ req[r].id \notin DOMAIN files
           /\ \A u \in Principals :
                 LET after == ReadLookup(ReadRequest(u, req[r].id), files)
                 IN  after.pc = "done" /\ after.resp.kind = "NotFound"

C8_Witness ==
    \E r \in Slots :
        /\ Finished(r) /\ req[r].op = "delete" /\ req[r].blobErr
        /\ Kind(r) = "Success"
        /\ req[r].id \notin DOMAIN files
        /\ \E b \in blobs : \A f \in DOMAIN files : files[f].path # b

\* C9: once the owner's Delete has removed a record, the id holds no record
\* again, and every Delete of that id by the same user that follows reports
\* NotFound, never an error.
C9_SecondDeleteNotFound ==
    /\ \A f \in DOMAIN deletedBy : f \notin DOMAIN files
    /\ \A r \in Slots :
          (/\ Finished(r) /\ req[r].op = "delete"
           /\ req[r].id \in DOMAIN deletedBy
           /\ deletedBy[req[r].id] = req[r].user)
          => \/ Kind(r) = "NotFound" /\ req[r].seen = NoFile
             \/ Kind(r) = "Success" /\ req[r].seen # NoFile

C9_Witness ==
    \E r \in Slots :
        /\ Finished(r) /\ req[r].op = "delete"
        /\ req[r].id \in DOMAIN deletedBy
        /\ deletedBy[req[r].id] = req[r].user
        /\ Kind(r) = "NotFound"

\* The requests of principal u on file id.
RequestsOn(u, id) ==
    {[Idle EXCEPT !.op = op, !.user = u, !.id = id] : op \in {"read", "download", "delete"}}
    \cup {[Idle EXCEPT !.op = "assign", !.user = u, !.id = id, !.folderArg = g] :
              g \in FolderArgs}

\* The slot of request q once its handler has looked the file up in store fs.
Lookup(q, fs) ==
    IF q.user = Anon /\ q.op \in {"delete", "assign"} THEN Rejected(q)
    ELSE IF q.op = "read" THEN ReadLookup(q, fs)
    ELSE IF q.op = "download" THEN DownloadLookup(q, fs)
    ELSE IF q.op = "delete" THEN DeleteLookup(q, fs)
    ELSE AssignLookup(q, fs)

\* What the client learns from a slot: whether it was answered, and the answer.
Answer(q) == <<q.pc = "done", q.resp>>

\* C10: for a principal who does not own a private file, every Read, Download,
\* Delete and ReassignFolder of the file is answered exactly as it is answered
\* when the store holds no record under the id; and every such request that
\* finished got the answer of the empty store.
C10_PrivateFileConcealed ==
    /\ \A f \in DOMAIN files : \A u \in Principals :
          (u # files[f].userId /\ ~files[f].isPublic)
          => \A q \in RequestsOn(u, f) :
                /\ Answer(Lookup(q, files)) = Answer(Lookup(q, RemoveFile(files, f)))
                /\ Lookup(q, files).pc = "done"
    /\ \A r \in Slots :
          (/\ Finished(r) /\ req[r].op \in {"read", "download", "delete", "assign"}
           /\ SawForeign(r) /\ SawPrivate(r))
          => req[r].resp = Lookup([Idle EXCEPT !.op = req[r].op, !.user = req[r].user,
                                               !.id = req[r].id,
                                               !.folderArg = req[r].folderArg],
                                  [i \in {} |-> 0]).resp

C10_Witness ==
    \E r \in Slots :
        /\ Finished(r) /\ req[r].op = "assign" /\ req[r].user = 1
        /\ SawForeign(r) /\ SawPrivate(r)
        /\ Kind(r) = "NotFound"
        /\ req[r].id \in DOMAIN files

\* The ids in list, and that list goes from the latest upload to the earliest.
Ids(list) == {list[i] : i \in DOMAIN list}
LatestFirst(fs, list) ==
    \A i, j \in DOMAIN list : i < j => fs[list[i]].uploadedAt > fs[list[j]].uploadedAt

\* C11: in every state the public list is exactly the existing public files
\* and a user's list exactly the existing files of that user, public or
\* private, both from the latest upload to the earliest; and that is what a
\* list page that has just been rendered holds.
C11_ListsFilterAndOrder ==
    /\ Ids(FindManyPublic(files)) = {f \in DOMAIN files : files[f].isPublic}
    /\ LatestFirst(files, FindManyPublic(files))
    /\ \A u \in Users :
          /\ Ids(FindManyOwned(files, u)) = {f \in DOMAIN files : files[f].userId = u}
          /\ LatestFirst(files, FindManyOwned(files, u))
    /\ \A r \in Slots :
          /\ (Finished(r) /\ req[r].op = "public")
                => /\ Ids(req[r].list) = {f \in DOMAIN files : files[f].isPublic}
                   /\ LatestFirst(files, req[r].list)
          /\ (Finished(r) /\ req[r].op = "owned" /\ req[r].user \in Users)
                => /\ Ids(req[r].list) = {f \in DOMAIN files : files[f].userId = req[r].user}
                   /\ LatestFirst(files, req[r].list)

C11_Witness ==
    \E r \in Slots :
        /\ Finished(r) /\ req[r].op = "owned" /\ req[r].user = 1
        /\ Len(req[r].list) = 1
        /\ ~files[req[r].list[1]].isPublic
        /\ \E f \in DOMAIN files : files[f].userId = 2 /\ files[f].isPublic

\* C12: a Delete whose owner-scoped lookup found the record ends with a
\* success acknowledgment and the record removed, whatever other requests
\* interleave with it and whether or not the blob removal throws.
C12_FoundDeleteSucceeds ==
    \A r \in Slots :
        (Finished(r) /\ req[r].op = "delete" /\ SawOwn(r))
        => /\ Kind(r) = "Success"
           /\ req[r].id \notin DOMAIN files

\* C13: no live record's blob is missing, also after a metadata-store failure
\* between the blob removal and the record deletion of a Delete; a record whose
\* Delete is between those two steps is on its way out and not counted.
C13_NoLiveRecordWithoutBlob ==
    \A i \in DOMAIN files :
        \/ files[i].path \in blobs
        \/ \E r \in Slots : /\ req[r].pc = "del_record"
                             /\ req[r].id = i

\* A Delete in slot r and a ReassignFolder in slot s, of the same user on the
\* same file, have both answered, and the Delete's lookup found the record.
DeleteAndAssignDone(r, s) ==
    /\ Finished(r) /\ req[r].op = "delete" /\ SawOwn(r)
    /\ Finished(s) /\ req[s].op = "assign"
    /\ req[s].id = req[r].id /\ req[s].user = req[r].user

C14_BothDone ==
    \A r, s \in Slots :
        DeleteAndAssignDone(r, s)
        => /\ req[r].id \notin DOMAIN files
           /\ Kind(s) \in {"Success", "Error", "NotFound", "FolderNotFound"}
           /\ Kind(s) \in {"Success", "Error"} => SawOwn(s)

C14_UpdateStep ==
    \A s \in Slots :
        (req[s].pc = "as_update" /\ req'[s] # req[s])
        => /\ DOMAIN files' \subseteq DOMAIN files
           /\ req[s].id \in DOMAIN deletedBy
              => /\ req'[s].resp.kind = "Error"
                 /\ files' = files
           /\ req[s].id \notin DOMAIN deletedBy
              => /\ req'[s].resp.kind = "Success"
                 /\ files'[req[s].id].folderId = req[s].folderId

\* C14: when a Delete and a ReassignFolder of the owner race on one file, the
\* reassignment's update either lands before the deletion and succeeds, or
\* comes after it and fails (or its lookup already reports not found); once
\* both have answered the record is absent, and no step of the reassignment
\* ever adds a record.
C14_DeleteRacesReassign == [] C14_BothDone /\ [][C14_UpdateStep]_vars

\* The reassignment passed its lookup, then lost the race: the Delete answered
\* success and the update failed.
C14_Witness ==
    \E r, s \in Slots :
        /\ DeleteAndAssignDone(r, s)
        /\ Kind(r) = "Success" /\ Kind(s) = "Error"
        /\ req[r].id \in DOMAIN deletedBy

\* Slot r takes a step of a request of operation op on file i.
StepOn(r, op, i) ==
    /\ req'[r] # req[r]
    /\ req[r].op = op /\ req[r].id = i

\* A Read, Download, Delete or ReassignFolder on file i arrives in slot r and
\* its handler runs to its first await.
HandlerBegins(r, i) ==
    /\ req[r].pc = "idle" /\ req'[r].pc # "idle"
    /\ req'[r].id = i
    /\ \/ req'[r].op \in {"read", "download"}
       \/ req'[r].op \in {"delete", "assign"} /\ req'[r].user # Anon

C15_LifecycleStep ==
    /\ DOMAIN deletedBy \subseteq DOMAIN deletedBy'
    /\ \A i \in DOMAIN deletedBy :
          /\ i \notin DOMAIN files'
          /\ \A r \in Slots :
                HandlerBegins(r, i)
                => req'[r].pc = "done" /\ req'[r].resp.kind = "NotFound"
    /\ \A i \in DOMAIN files' \ DOMAIN files :
          /\ i = nextId /\ i \notin DOMAIN deletedBy
          /\ files'[i].folderId \in {Null, "g1", "g2"}
          /\ \E r \in Slots : req[r].op = "upload" /\ req'[r] # req[r]
    /\ \A i \in DOMAIN files \ DOMAIN files' :
          /\ i \in DOMAIN deletedBy'
          /\ \E r \in Slots : StepOn(r, "delete", i)
    /\ \A i \in DOMAIN files \cap DOMAIN files' :
          files'[i].folderId # files[i].folderId
          => \E r \in Slots : StepOn(r, "assign", i)

\* C15: a record is created by an upload, filed or unfiled; its folder
\* changes only by a step of a ReassignFolder on it; it leaves the store only
\* by a step of a Delete on it; and once deleted its id never has a record
\* again and every Read, Download, Delete or ReassignFolder handler that
\* starts on the id afterwards reports NotFound.
C15_DeletedIsTerminal == [][C15_LifecycleStep]_vars

\* A file was deleted, and a request of its former owner on its id was told
\* that it does not exist.
C15_Witness ==
    \E r \in Slots :
        /\ Finished(r) /\ req[r].op \in {"read", "download", "delete", "assign"}
        /\ req[r].id \in DOMAIN deletedBy
        /\ req[r].user = deletedBy[req[r].id]
        /\ req[r].seen = NoFile /\ Kind(r) = "NotFound"

\* A metadata-store call of the upload in slot r fails in this step.
UploadFails(r) ==
    /\ req[r].op = "upload" /\ req[r].pc \in {"up_folder", "up_create"}
    /\ req'[r].fault

C16_FailedCreateStep ==
    \A r \in Slots :
        UploadFails(r)
        => /\ req'[r].pc = "done" /\ req'[r].resp.kind = "Error"
           /\ files' = files
           /\ blobs' = blobs /\ req[r].path \in blobs'
           /\ \A i \in DOMAIN files' : files'[i].path # req[r].path

\* C16: when the metadata store fails during an upload whose blob is already
\* stored, the request reports an error, no record is created, no existing
\* record changes, and the blob stays behind with no record pointing at it.
C16_FailedCreateLeavesBlob == [][C16_FailedCreateStep]_vars

\* The first upload, with no folder asked for, failed at the creation of its
\* record: blob 1 is stored and no record exists.
C16_Witness ==
    \E r \in Slots :
        /\ Finished(r) /\ req[r].op = "upload" /\ req[r].fault
        /\ req[r].folderArg = "" /\ Kind(r) = "Error"
        /\ blobs = {1} /\ DOMAIN files = {} /\ nextId = 1

\* The DELETE handler run from its first line to its response on the store st,
\* with nothing else running; threw tells whether fs.unlink threw.
RunDelete(q, st, threw) ==
    LET found == DeleteLookup(q, st.files)
    IN  IF found.pc = "done"
        THEN [files |-> st.files, blobs |-> st.blobs, resp |-> found.resp]
        ELSE [files |-> RemoveFile(st.files, q.id),
              blobs |-> IF threw THEN st.blobs ELSE st.blobs \ {found.path},
              resp |-> Resp("Success", 0)]

\* The assign-folder handler run from its first line to its response on st.
RunAssign(q, st) ==
    LET found == AssignLookup(q, st.files)
    IN  IF found.pc = "done"
        THEN [files |-> st.files, blobs |-> st.blobs, resp |-> found.resp]
        ELSE IF found.pc = "as_folder" /\ ~FindFolder(folders, q.folderArg, q.user)
        THEN [files |-> st.files, blobs |-> st.blobs,
              resp |-> Resp("FolderNotFound", q.id)]
        ELSE [files |-> [st.files EXCEPT ![q.id].folderId = OrNull(q.folderArg)],
              blobs |-> st.blobs, resp |-> Resp("Success", q.id)]

Run(q, st) ==
    IF q.op = "delete" THEN RunDelete(q, st, q.blobErr) ELSE RunAssign(q, st)

\* The request of slot r served alone on the initial store, then the request
\* of slot s served alone on what it left.
OneThenOther(r, s) ==
    LET a == Run(req[r], start)
        b == Run(req[s], a)
    IN  [files |-> b.files, blobs |-> b.blobs, first |-> a.resp, second |-> b.resp]

\* Slots r and s have answered a Delete or ReassignFolder each, on different
\* files, and no other request has been served.
PairDone(r, s) ==
    /\ r # s /\ Finished(r) /\ Finished(s)
    /\ req[r].op \in {"delete", "assign"} /\ req[s].op \in {"delete", "assign"}
    /\ req[r].id # req[s].id
    /\ \A t \in Slots \ {r, s} : req[t].pc = "idle"

\* C17: two mutating requests (Delete or ReassignFolder) on different files,
\* served concurrently, leave the records and blobs and give the two responses
\* that serving them one after the other gives, in either order.
C17_DifferentFilesCommute ==
    \A r, s \in Slots :
        PairDone(r, s)
        => /\ files = OneThenOther(r, s).files
           /\ blobs = OneThenOther(r, s).blobs
           /\ req[r].resp = OneThenOther(r, s).first
           /\ req[s].resp = OneThenOther(r, s).second

\* One user deleted one of their files and moved another, both with success.
C17_Witness ==
    \E r, s \in Slots :
        /\ PairDone(r, s)
        /\ req[r].op = "delete" /\ req[s].op = "assign"
        /\ req[r].user = req[s].user
        /\ Kind(r) = "Success" /\ Kind(s) = "Success"
        /\ req[s].id \in DOMAIN files /\ files[req[s].id].folderId # Null
        /\ files # start.files /\ blobs # start.blobs

\* The ReassignFolder in slot s answers success in this step.
AssignSucceeds(s) ==
    /\ req[s].op = "assign" /\ req[s].pc # "done"
    /\ req'[s].pc = "done" /\ req'[s].resp.kind = "Success"

C18_ReassignStep ==
    \A s \in Slots :
        AssignSucceeds(s)
        => LET i == req[s].id
           IN  /\ i \in DOMAIN files /\ files[i].userId = req[s].user
               /\ files' = [files EXCEPT ![i].folderId = OrNull(req[s].folderArg)]
               /\ files'[i].folderId \in FoldersOf(req[s].user)
               /\ folders' = folders /\ blobs' = blobs

C18_OwnerStep ==
    /\ \A i \in DOMAIN files \cap DOMAIN files' : files'[i].userId = files[i].userId
    /\ \A i \in DOMAIN files' \ DOMAIN files :
          \E r \in Slots : /\ req[r].op = "upload" /\ req'[r] # req[r]
                           /\ files'[i].userId = req[r].user

\* C18: the step in which a ReassignFolder of the owner succeeds sets the
\* file's folderId to the requested folder, or to null for an empty request,
\* and changes no other field of the record, no other record, no folder and
\* no blob; a record's owner is the user whose upload created it and no step
\* changes it.
C18_ReassignChangesFolderOnly == [][C18_ReassignStep /\ C18_OwnerStep]_vars

\* A public file, one of two records, has been moved into a folder.
C18_Witness ==
    \E s \in Slots :
        /\ Finished(s) /\ req[s].op = "assign" /\ Kind(s) = "Success"
        /\ req[s].folderArg # ""
        /\ req[s].id \in DOMAIN files
        /\ files[req[s].id].folderId = req[s].folderArg
        /\ files[req[s].id].userId = req[s].user
        /\ files[req[s].id].isPublic
        /\ Cardinality(DOMAIN files) = 2

====
